---- MODULE Spec2Model ----
(***************************************************************************)
(* sphinx-js: the TypeDoc analyzer (sphinx_js/typedoc.py) and the path     *)
(* helpers (sphinx_js/analyzer_utils.py).                                  *)
(*                                                                         *)
(* Analyzer.__init__ loads every IR object into a SuffixTree keyed by the  *)
(* object's path segments, groups the documentation roots into modules     *)
(* and loads those into a second SuffixTree; Analyzer.get_object answers   *)
(* a path-suffix query from the first tree.  sphinx_js/suffix_tree.py is   *)
(* not part of the sources at hand: the tree is modelled from its          *)
(* description (a tree keyed by the segments in reverse order, every node  *)
(* recording the entries whose path ends with the suffix leading to it).   *)
(*                                                                         *)
(* Python strings that the code takes apart (startswith, slicing, split,   *)
(* join, comparison) are sequences of one-character strings; path          *)
(* segments of the suffix tree, which the code only compares for           *)
(* equality, are plain strings.                                            *)
(***************************************************************************)
EXTENDS Naturals, Sequences, FiniteSets, TLC

VARIABLES
  objects,            \* the corpus handed to Analyzer.__init__
  _objects_by_path,   \* Analyzer._objects_by_path
  _modules_by_path,   \* Analyzer._modules_by_path
  reordered,          \* the same corpus in another order (second Analyzer)
  reordered_by_path,  \* the second Analyzer's _objects_by_path
  op,                 \* the operation that produced this state
  path_suffix,        \* argument of the last query / input of the last call
  result              \* what the last operation returned

vars == <<objects, _objects_by_path, _modules_by_path, reordered,
          reordered_by_path, op, path_suffix, result>>

(***************************************************************************)
(* Bounds and input alphabets                                              *)
(***************************************************************************)
MaxObjects == 2
MaxPathLen == 2
MaxTextLen == 4
MaxSegments == 4

Segs == {"A#", "run"}

SeqsUpTo(S, n) == UNION {[1..k -> S] : k \in 0..n}

Paths == SeqsUpTo(Segs, MaxPathLen)

\* suffixes a caller may ask for
Queries == Paths

\* every suffix the properties are examined on: longer than any indexed path too
AllSuffixes == SeqsUpTo(Segs, MaxPathLen + 1)

Reverse(s) == [i \in 1..Len(s) |-> s[Len(s) + 1 - i]]

(***************************************************************************)
(* SuffixTree: a map from node (the reversed suffix that leads to it) to   *)
(* the sequence of entries recorded there.  The root is the empty suffix.  *)
(***************************************************************************)
EmptyTree == (<<>> :> <<>>)

\* nothing returned (yet)
None == [kind |-> "None"]

NotFound == [kind |-> "NotFound"]
Found(value) == [kind |-> "Found", value |-> value]
Ambiguous(paths) == [kind |-> "Ambiguous", paths |-> paths]

\* one node of an insertion records the entry, creating the node if needed
record_entry(tree, node, entry) ==
  IF node \in DOMAIN tree
    THEN [tree EXCEPT ![node] = Append(@, entry)]
    ELSE (node :> <<entry>>) @@ tree

RECURSIVE insert_from(_, _, _, _)
insert_from(tree, rev, i, entry) ==
  LET recorded == record_entry(tree, SubSeq(rev, 1, i), entry)
  IN  IF i = Len(rev) THEN recorded
      ELSE insert_from(recorded, rev, i + 1, entry)

\* SuffixTree.add: one reversed-path insertion
add(tree, segments, value) ==
  insert_from(tree, Reverse(segments), 0, [path |-> segments, value |-> value])

RECURSIVE add_many(_, _)
add_many(tree, entries) ==
  IF entries = <<>> THEN tree
  ELSE add_many(add(tree, Head(entries)[1], Head(entries)[2]), Tail(entries))

RECURSIVE walk(_, _, _)
walk(tree, node, rest) ==
  IF rest = <<>> THEN [landed |-> TRUE, node |-> node]
  ELSE LET child == Append(node, Head(rest))
       IN  IF child \in DOMAIN tree THEN walk(tree, child, Tail(rest))
           ELSE [landed |-> FALSE, node |-> node]

\* SuffixTree.get
get(tree, suffix) ==
  LET end == walk(tree, <<>>, Reverse(suffix))
  IN  IF ~end.landed THEN NotFound
      ELSE LET recorded == tree[end.node]
           IN  IF Len(recorded) = 0 THEN NotFound
               ELSE IF Len(recorded) = 1 THEN Found(recorded[1].value)
               ELSE Ambiguous([i \in 1..Len(recorded) |-> recorded[i].path])

(***************************************************************************)
(* Analyzer._get_toplevel_objects and Analyzer._create_modules             *)
(***************************************************************************)
Kinds == {"class", "interface", "function", "attribute", "typeAlias"}

singular_kind_to_plural_kind(kind) ==
  CASE kind = "class" -> "classes"
    [] kind = "interface" -> "interfaces"
    [] kind = "function" -> "functions"
    [] kind = "attribute" -> "attributes"
    [] kind = "typeAlias" -> "type_aliases"

\* code point of a character, for Python's string comparison
Ord(c) ==
  CASE c = "#" -> 35 [] c = "." -> 46 [] c = "/" -> 47
    [] c = "B" -> 66 [] c = "C" -> 67
    [] c = "a" -> 97 [] c = "b" -> 98 [] c = "d" -> 100 [] c = "f" -> 102
    [] c = "m" -> 109 [] c = "x" -> 120

\* Python's s < t on strings: lexicographic by code point, a proper prefix first
RECURSIVE StrLess(_, _)
StrLess(s, t) ==
  IF t = <<>> THEN FALSE
  ELSE IF s = <<>> THEN TRUE
  ELSE IF Head(s) # Head(t) THEN Ord(Head(s)) < Ord(Head(t))
  ELSE StrLess(Tail(s), Tail(t))

\* str.split(sep) for a one-character separator
RECURSIVE split_from(_, _, _, _)
split_from(text, sep, i, current) ==
  IF i > Len(text) THEN <<current>>
  ELSE IF text[i] = sep THEN <<current>> \o split_from(text, sep, i + 1, <<>>)
  ELSE split_from(text, sep, i + 1, Append(current, text[i]))

split(text, sep) == split_from(text, sep, 1, <<>>)

\* the generator: documentation roots only, in corpus order
_get_toplevel_objects(ir_objects) ==
  SelectSeq(ir_objects, LAMBDA obj : obj.documentation_root)

\* pathparts: every part but the last gets its "/" back
pathparts_of(path) ==
  LET parts == split(path, "/")
  IN  [i \in 1..Len(parts) |->
         IF i < Len(parts) THEN Append(parts[i], "/") ELSE parts[i]]

new_Module(path) ==
  [filename |-> path, deppath |-> path, path |-> pathparts_of(path), line |-> 1,
   attributes |-> <<>>, functions |-> <<>>, classes |-> <<>>,
   interfaces |-> <<>>, type_aliases |-> <<>>]

\* index of the module for `path` in the dict (insertion order), 0 if absent
module_index(modules, path) ==
  IF \E i \in 1..Len(modules) : modules[i].deppath = path
    THEN CHOOSE i \in 1..Len(modules) : modules[i].deppath = path
    ELSE 0

\* one turn of the first loop: create the module if needed, append the object
place_object(modules, obj) ==
  LET present == IF module_index(modules, obj.deppath) = 0
                   THEN Append(modules, new_Module(obj.deppath))
                   ELSE modules
      i == module_index(present, obj.deppath)
      bucket == singular_kind_to_plural_kind(obj.kind)
  IN  [present EXCEPT ![i] = [@ EXCEPT ![bucket] = Append(@, obj)]]

RECURSIVE place_all(_, _)
place_all(modules, toplevel) ==
  IF toplevel = <<>> THEN modules
  ELSE place_all(place_object(modules, Head(toplevel)), Tail(toplevel))

\* sorted(xs, key=attrgetter("name")): stable, ascending
RECURSIVE sorted_by_name(_)

\* mutant: an object goes in front of those of the same name (not stable)
sorted_insert_before_equal(done, obj) ==
  LET keep == {i \in 1..Len(done) : StrLess(done[i].name, obj.name)}
      n == Cardinality(keep)
  IN  SubSeq(done, 1, n) \o <<obj>> \o SubSeq(done, n + 1, Len(done))

\* where the next object goes among those already in order
sorted_insert(done, obj) ==
  LET keep == {i \in 1..Len(done) : ~StrLess(obj.name, done[i].name)}
      n == Cardinality(keep)
  IN  SubSeq(done, 1, n) \o <<obj>> \o SubSeq(done, n + 1, Len(done))
sorted_by_name(xs) ==
  IF xs = <<>> THEN <<>>
  ELSE sorted_insert(sorted_by_name(SubSeq(xs, 1, Len(xs) - 1)), xs[Len(xs)])

sort_module(mod) ==
  [mod EXCEPT !.attributes = sorted_by_name(@),
              !.functions = sorted_by_name(@),
              !.classes = sorted_by_name(@),
              !.interfaces = sorted_by_name(@),
              !.type_aliases = sorted_by_name(@)]

_create_modules(ir_objects) ==
  LET modules == place_all(<<>>, _get_toplevel_objects(ir_objects))
  IN  [i \in 1..Len(modules) |-> sort_module(modules[i])]

(***************************************************************************)
(* Analyzer.__init__ and Analyzer.get_object                               *)
(***************************************************************************)
\* an IR object as the index sees it; id stands for the object's identity
IndexObject(id, path) ==
  [id |-> id, path |-> path, documentation_root |-> TRUE,
   deppath |-> <<"f">>, kind |-> "function", name |-> <<"a">>]

IndexCorpora ==
  {[i \in 1..Len(ps) |-> IndexObject(i, ps[i])] : ps \in SeqsUpTo(Paths, MaxObjects)}

\* mutant: the last object of the corpus never reaches the tree
ObjectEntries_skip_last(objs) ==
  [i \in 1..(IF objs = <<>> THEN 0 ELSE Len(objs) - 1) |-> <<objs[i].path, objs[i]>>]

\* mutant: every object is keyed by the last segment of its path alone
ObjectEntries_last_segment(objs) ==
  [i \in 1..Len(objs) |->
     <<IF objs[i].path = <<>> THEN <<>>
       ELSE <<objs[i].path[Len(objs[i].path)]>>, objs[i]>>]

\* the generator ((obj.path.segments, obj) for obj in objects)
ObjectEntries(objs) == [i \in 1..Len(objs) |-> <<objs[i].path, objs[i]>>]

\* tree.add_many((obj.path.segments, obj) for obj in objects)
load_objects(tree, objs) == add_many(tree, ObjectEntries(objs))

Analyzer_init(objs) ==
  [_objects_by_path |-> load_objects(EmptyTree, objs),
   _modules_by_path |-> load_objects(EmptyTree, _create_modules(objs))]

\* mutant: an answer found is stored back under the suffix that was asked
get_object_caching(tree, suffix) ==
  [returned |-> get(tree, suffix),
   _objects_by_path |->
     IF get(tree, suffix).kind = "Found"
       THEN add(tree, suffix, get(tree, suffix).value)
       ELSE tree]

\* what get_object returns and the tree it leaves behind
get_object(tree, suffix) ==
  [returned |-> get(tree, suffix), _objects_by_path |-> tree]

Constructed(corpus) ==
  /\ objects = corpus
  /\ _objects_by_path = Analyzer_init(corpus)._objects_by_path
  /\ _modules_by_path = Analyzer_init(corpus)._modules_by_path
  /\ op = "__init__"
  /\ path_suffix = <<>>
  /\ result = None

Init ==
  /\ \E corpus \in IndexCorpora : Constructed(corpus)
  /\ reordered = <<>>
  /\ reordered_by_path = EmptyTree

AnalyzerOps == {"__init__", "get_object", "get_object (reordered)"}

GetObject(suffix) ==
  LET call == get_object(_objects_by_path, suffix)
  IN  /\ op \in AnalyzerOps
      /\ result' = call.returned
      /\ _objects_by_path' = call._objects_by_path
      /\ path_suffix' = suffix
      /\ op' = "get_object"
      /\ UNCHANGED <<objects, _modules_by_path, reordered, reordered_by_path>>

Next == \E suffix \in Queries : GetObject(suffix)

Spec == Init /\ [][Next]_vars

(***************************************************************************)
(* Vocabulary of the properties                                            *)
(***************************************************************************)
\* the last k segments of path
Suffix(path, k) == SubSeq(path, Len(path) - k + 1, Len(path))

\* path ends with the contiguous run suffix
EndsWith(path, suffix) ==
  /\ Len(suffix) <= Len(path)
  /\ \A m \in 1..Len(suffix) : path[Len(path) - Len(suffix) + m] = suffix[m]

\* how many elements of seq equal x
Count(seq, x) == Cardinality({i \in 1..Len(seq) : seq[i] = x})

Answer(suffix) == get_object(_objects_by_path, suffix).returned

\* C1: every non-empty suffix of an indexed object's path answers with that
\* object exactly when no other indexed object's path ends with it, and
\* answers Ambiguous when another one does.
SuffixCorrectness ==
  \A i \in 1..Len(objects) : \A k \in 1..Len(objects[i].path) :
    LET suffix == Suffix(objects[i].path, k)
        shared == \E j \in 1..Len(objects) :
                    j # i /\ EndsWith(objects[j].path, suffix)
    IN  /\ (Answer(suffix) = Found(objects[i])) <=> ~shared
        /\ shared => Answer(suffix).kind = "Ambiguous"

SuffixCorrectnessWitness ==
  /\ Len(objects) = 2
  /\ objects[1].path = <<"A#", "run">>
  /\ objects[2].path = <<"run", "run">>
  /\ op = "get_object"
  /\ path_suffix = <<"A#", "run">>
  /\ result = Found(objects[1])

\* C2: a query fails with NotFound exactly when the asked suffix is not a
\* trailing run of any indexed path; so every query on an empty index does.
NotFoundExactly ==
  \A suffix \in AllSuffixes :
    (Answer(suffix) = NotFound)
      <=> ~\E i \in 1..Len(objects) : EndsWith(objects[i].path, suffix)

NotFoundWitness ==
  /\ Len(objects) = 2
  /\ objects[1].path = <<"A#", "run">>
  /\ op = "get_object"
  /\ path_suffix = <<"run", "run">>
  /\ result = NotFound

\* the analyzer built from the two methods A#run and B#run of one package
RunExample ==
  <<IndexObject(1, <<"pkg/", "A#", "run">>), IndexObject(2, <<"pkg/", "B#", "run">>)>>

\* C3: an Ambiguous failure lists, once each, the full paths of the indexed
\* objects whose path ends with the asked suffix: at least two, and no other;
\* so "run" is ambiguous between pkg/A#run and pkg/B#run while A#run is not.
AmbiguousListsConflicts ==
  /\ LET index == Analyzer_init(RunExample)._objects_by_path
     IN  /\ get_object(index, <<"run">>).returned
               = Ambiguous(<<RunExample[1].path, RunExample[2].path>>)
         /\ get_object(index, <<"A#", "run">>).returned = Found(RunExample[1])
  /\ \A suffix \in AllSuffixes :
    LET answer == Answer(suffix)
        ending == {i \in 1..Len(objects) : EndsWith(objects[i].path, suffix)}
    IN  answer.kind = "Ambiguous" =>
          /\ Len(answer.paths) >= 2
          /\ Len(answer.paths) = Cardinality(ending)
          /\ \A p \in Paths :
                Count(answer.paths, p)
                  = Cardinality({i \in ending : objects[i].path = p})
          /\ \A n \in 1..Len(answer.paths) : EndsWith(answer.paths[n], suffix)

AmbiguousWitness ==
  /\ Len(objects) = 2
  /\ objects[1].path = <<"A#", "run">>
  /\ objects[2].path = <<"run", "run">>
  /\ op = "get_object"
  /\ path_suffix = <<"run">>
  /\ result = Ambiguous(<<objects[1].path, objects[2].path>>)

\* C5 as stated: every indexed object is returned by a query for its full
\* path, whatever else is indexed.
FullPathReachability ==
  \A i \in 1..Len(objects) : Answer(objects[i].path) = Found(objects[i])

\* C5 amended: a query for an object's full path returns the object unless
\* another indexed object's path ends with (or equals) that path, and then it
\* fails with Ambiguous.
FullPathUnlessShared ==
  \A i \in 1..Len(objects) :
    LET shared == \E j \in 1..Len(objects) :
                    j # i /\ EndsWith(objects[j].path, objects[i].path)
    IN  IF shared THEN Answer(objects[i].path).kind = "Ambiguous"
        ELSE Answer(objects[i].path) = Found(objects[i])

FullPathWitness ==
  /\ Len(objects) = 2
  /\ objects[1].path = <<"run">>
  /\ objects[2].path = <<"A#", "run">>
  /\ op = "get_object"
  /\ path_suffix = <<"run">>
  /\ result.kind = "Ambiguous"

\* C7: a query leaves the analyzer exactly as construction left it, whatever
\* it answers, and is answered as it would have been right after construction:
\* so the same query asked again, after any other queries, answers the same.
QueriesReadOnly ==
  op = "get_object" =>
    /\ _objects_by_path = Analyzer_init(objects)._objects_by_path
    /\ _modules_by_path = Analyzer_init(objects)._modules_by_path
    /\ result = get(Analyzer_init(objects)._objects_by_path, path_suffix)

QueriesReadOnlyWitness ==
  /\ Len(objects) = 2
  /\ objects[1].path = <<"run">>
  /\ objects[2].path = <<"A#", "run">>
  /\ op = "get_object"
  /\ path_suffix = <<"A#", "run">>
  /\ result = Found(objects[2])

(***************************************************************************)
(* Two analyzers over the same corpus presented in two orders.             *)
(***************************************************************************)
Orders(n) == {f \in [1..n -> 1..n] : \A i, j \in 1..n : f[i] = f[j] => i = j}

\* a corpus listed in one fixed order of its paths: every collection of
\* objects has such a listing, and every other listing is a reordering of it
SegRank(seg) == IF seg = "A#" THEN 1 ELSE 2

RECURSIVE PathRank(_)
PathRank(path) ==
  IF path = <<>> THEN 0 ELSE 3 * PathRank(Tail(path)) + SegRank(Head(path))

Listed(corpus) ==
  \A i \in 1..(Len(corpus) - 1) :
    PathRank(corpus[i].path) <= PathRank(corpus[i + 1].path)

InitOrder ==
  /\ \E corpus \in {c \in IndexCorpora : Listed(c)} : \E f \in Orders(Len(corpus)) :
       /\ Constructed(corpus)
       /\ reordered = [i \in 1..Len(corpus) |-> corpus[f[i]]]
       /\ reordered_by_path
            = Analyzer_init([i \in 1..Len(corpus) |-> corpus[f[i]]])._objects_by_path

GetObjectReordered(suffix) ==
  LET call == get_object(reordered_by_path, suffix)
  IN  /\ op \in AnalyzerOps
      /\ result' = call.returned
      /\ reordered_by_path' = call._objects_by_path
      /\ path_suffix' = suffix
      /\ op' = "get_object (reordered)"
      /\ UNCHANGED <<objects, _objects_by_path, _modules_by_path, reordered>>

NextOrder == \E suffix \in Queries : GetObjectReordered(suffix)

SpecOrder == InitOrder /\ [][NextOrder]_vars

\* an answer without the order in which an Ambiguous failure lists its paths
Outcome(answer) ==
  IF answer.kind = "Ambiguous"
    THEN [kind |-> "Ambiguous",
          paths |-> [p \in {answer.paths[n] : n \in 1..Len(answer.paths)}
                       |-> Count(answer.paths, p)]]
    ELSE answer

\* C4: whatever order the corpus is presented in, every query has the same
\* outcome: the same object, NotFound, or Ambiguous over the same paths.
OrderIndependence ==
  \A suffix \in AllSuffixes :
    Outcome(get_object(reordered_by_path, suffix).returned) = Outcome(Answer(suffix))

OrderIndependenceWitness ==
  /\ Len(objects) = 2
  /\ objects[1].path = <<"run">>
  /\ objects[2].path = <<"A#", "run">>
  /\ reordered = <<objects[2], objects[1]>>
  /\ op = "get_object (reordered)"
  /\ path_suffix = <<"A#", "run">>
  /\ result = Found(objects[2])

(***************************************************************************)
(* A tree that keeps taking inserts between queries.                       *)
(***************************************************************************)
InitTree ==
  /\ objects = <<>>
  /\ _objects_by_path = EmptyTree
  /\ _modules_by_path = EmptyTree
  /\ reordered = <<>>
  /\ reordered_by_path = EmptyTree
  /\ op = "SuffixTree"
  /\ path_suffix = <<>>
  /\ result = None

\* one more batch of objects goes through add_many
Load(paths) ==
  LET batch == [i \in 1..Len(paths) |-> IndexObject(Len(objects) + i, paths[i])]
  IN  /\ Len(objects) + Len(paths) <= MaxObjects
      /\ objects' = objects \o batch
      /\ _objects_by_path' = load_objects(_objects_by_path, batch)
      /\ op' = "add_many"
      /\ path_suffix' = <<>>
      /\ result' = None
      /\ UNCHANGED <<_modules_by_path, reordered, reordered_by_path>>

TreeGet(suffix) ==
  /\ result' = get(_objects_by_path, suffix)
  /\ path_suffix' = suffix
  /\ op' = "get"
  /\ UNCHANGED <<objects, _objects_by_path, _modules_by_path, reordered,
                 reordered_by_path>>

NextTree ==
  \/ \E paths \in SeqsUpTo(Paths, MaxObjects - Len(objects)) : Load(paths)
  \/ \E suffix \in Queries : TreeGet(suffix)

SpecTree == InitTree /\ [][NextTree]_vars

\* C6: once an object is inserted, whatever is inserted or asked afterwards,
\* no non-empty suffix of its path answers NotFound: the answer is an inserted
\* object whose path ends with the suffix, or Ambiguous over all of those.
ReadYourInserts ==
  \A i \in 1..Len(objects) : \A k \in 1..Len(objects[i].path) :
    LET suffix == Suffix(objects[i].path, k)
        ending == {j \in 1..Len(objects) : EndsWith(objects[j].path, suffix)}
        answer == get(_objects_by_path, suffix)
    IN  /\ answer.kind # "NotFound"
        /\ answer.kind = "Found" => ending = {i} /\ answer.value = objects[i]
        /\ answer.kind = "Ambiguous" => Len(answer.paths) = Cardinality(ending)
        /\ (op = "get" /\ path_suffix = suffix) => result.kind # "NotFound"

ReadYourInsertsWitness ==
  /\ Len(objects) = 2
  /\ objects[1].path = <<"A#", "run">>
  /\ objects[2].path = <<"run", "run">>
  /\ op = "get"
  /\ path_suffix = <<"run">>
  /\ result.kind = "Ambiguous"

(***************************************************************************)
(* analyzer_utils: is_explicitly_rooted and dotted_path                    *)
(***************************************************************************)
\* str.startswith(prefix)
startswith(text, prefix) ==
  /\ Len(prefix) <= Len(text)
  /\ SubSeq(text, 1, Len(prefix)) = prefix

\* mutant: anything that starts with a dot counts as rooted
is_explicitly_rooted_any_dot(path) == startswith(path, <<".">>)

is_explicitly_rooted(path) ==
  \/ startswith(path, <<".", ".", "/">>)
  \/ startswith(path, <<".", "/">>)
  \/ path \in {<<".", ".">>, <<".">>}

\* s[:-1]
drop_last(s) == IF s = <<>> THEN <<>> ELSE SubSeq(s, 1, Len(s) - 1)

\* sep.join(tokens)
RECURSIVE join(_, _)
join(sep, tokens) ==
  IF tokens = <<>> THEN <<>>
  ELSE IF Len(tokens) = 1 THEN tokens[1]
  ELSE tokens[1] \o sep \o join(sep, Tail(tokens))

RelativeDirs == {<<".", "/">>, <<".", ".", "/">>}

\* [s[:-1] for s in segments[:-1] if s not in ["./", "../"]]
segments_without_separators(segments) ==
  LET leading == SubSeq(segments, 1, Len(segments) - 1)
      kept == SelectSeq(leading, LAMBDA s : s \notin RelativeDirs)
  IN  [i \in 1..Len(kept) |-> drop_last(kept[i])]

\* mutant: the relative-directory segments are stripped like any other
dotted_path_no_filter(segments) ==
  IF segments = <<>> THEN <<>>
  ELSE join(<<".">>,
            Append([i \in 1..(Len(segments) - 1) |-> drop_last(segments[i])],
                   segments[Len(segments)]))

dotted_path(segments) ==
  IF segments = <<>> THEN <<>>
  ELSE join(<<".">>,
            Append(segments_without_separators(segments), segments[Len(segments)]))

Chars == {".", "/", "x"}

Texts == SeqsUpTo(Chars, MaxTextLen)

SegmentTexts ==
  {<<>>, <<".">>, <<".", "/">>, <<".", ".", "/">>, <<"a", "/">>, <<"b", "/">>,
   <<"C", "#">>, <<"m">>, <<"d", "i", "r", "/">>, <<"f", "i", "l", "e">>}

SegmentLists == SeqsUpTo(SegmentTexts, MaxSegments)

InitPaths ==
  /\ objects = <<>>
  /\ _objects_by_path = EmptyTree
  /\ _modules_by_path = EmptyTree
  /\ reordered = <<>>
  /\ reordered_by_path = EmptyTree
  /\ result = <<>>
  /\ \/ op = "path" /\ path_suffix \in Texts
     \/ op = "segments" /\ path_suffix \in SegmentLists

IsExplicitlyRooted ==
  /\ op = "path"
  /\ result' = is_explicitly_rooted(path_suffix)
  /\ op' = "is_explicitly_rooted"
  /\ UNCHANGED <<objects, _objects_by_path, _modules_by_path, reordered,
                 reordered_by_path, path_suffix>>

DottedPath ==
  /\ op = "segments"
  /\ result' = dotted_path(path_suffix)
  /\ op' = "dotted_path"
  /\ UNCHANGED <<objects, _objects_by_path, _modules_by_path, reordered,
                 reordered_by_path, path_suffix>>

NextPaths == IsExplicitlyRooted \/ DottedPath

SpecPaths == InitPaths /\ [][NextPaths]_vars

\* C8: is_explicitly_rooted is true exactly of the texts that begin with "./"
\* or "../" or are "." or ".."; so it is false of "", "x/x", "/x", ".x", "...".
RootedExactly ==
  op = "is_explicitly_rooted" =>
    LET t == path_suffix
        n == Len(t)
    IN  /\ result \in BOOLEAN
        /\ result <=>
              \/ n >= 2 /\ t[1] = "." /\ t[2] = "/"
              \/ n >= 3 /\ t[1] = "." /\ t[2] = "." /\ t[3] = "/"
              \/ n = 1 /\ t[1] = "."
              \/ n = 2 /\ t[1] = "." /\ t[2] = "."
        /\ t \in {<<>>, <<"x", "/", "x">>, <<"/", "x">>, <<".", "x">>,
                   <<".", ".", ".">>} => result = FALSE
        /\ t \in {<<".", "/", "x">>, <<".", ".", "/", "x">>, <<".", ".">>}
             => result = TRUE

RootedWitness ==
  /\ op = "is_explicitly_rooted"
  /\ path_suffix = <<".", ".", "/", "x">>
  /\ result = TRUE

\* the text a path renders to, segment by segment from position i on
RECURSIVE RenderedFrom(_, _)
RenderedFrom(segments, i) ==
  IF i = Len(segments) THEN segments[i]
  ELSE IF segments[i] = <<".", "/">> \/ segments[i] = <<".", ".", "/">>
    THEN RenderedFrom(segments, i + 1)
  ELSE [k \in 1..(Len(segments[i]) - 1) |-> segments[i][k]] \o <<".">>
         \o RenderedFrom(segments, i + 1)

\* C9: dotted_path gives "" for no segments; otherwise every segment before
\* the last is dropped if it is "./" or "../" and else kept without its final
\* character, the last is kept as it is, and the kept ones are joined by ".".
DottedPathRendering ==
  op = "dotted_path" =>
    /\ path_suffix = <<>> => result = <<>>
    /\ path_suffix # <<>> => result = RenderedFrom(path_suffix, 1)
    /\ path_suffix = <<<<"a", "/">>, <<"b", "/">>, <<"C", "#">>, <<"m">>>>
         => result = <<"a", ".", "b", ".", "C", ".", "m">>
    /\ path_suffix = <<<<".", "/">>, <<"d", "i", "r", "/">>, <<"f", "i", "l", "e">>>>
         => result = <<"d", "i", "r", ".", "f", "i", "l", "e">>

DottedPathWitness ==
  /\ op = "dotted_path"
  /\ path_suffix = <<<<"a", "/">>, <<".", ".", "/">>, <<"C", "#">>, <<".", "/">>>>
  /\ result = <<"a", ".", "C", ".", ".", "/">>

(***************************************************************************)
(* Analyzer._create_modules applied to a corpus                            *)
(***************************************************************************)
Names == {<<"a">>, <<"B">>, <<"a", "b">>}

DepPaths == {<<"f">>, <<"d", "/", "f">>}

ModuleObjects ==
  [path : {<<>>}, documentation_root : BOOLEAN, deppath : DepPaths,
   kind : Kinds, name : Names]

ModuleCorpora ==
  {[i \in 1..Len(os) |->
      [id |-> i, path |-> os[i].path,
       documentation_root |-> os[i].documentation_root,
       deppath |-> os[i].deppath, kind |-> os[i].kind, name |-> os[i].name]]
     : os \in SeqsUpTo(ModuleObjects, MaxObjects)}

InitModules ==
  /\ objects \in ModuleCorpora
  /\ _objects_by_path = EmptyTree
  /\ _modules_by_path = EmptyTree
  /\ reordered = <<>>
  /\ reordered_by_path = EmptyTree
  /\ path_suffix = <<>>
  /\ result = <<>>
  /\ op = "ir_objects"

CreateModules ==
  /\ op = "ir_objects"
  /\ result' = _create_modules(objects)
  /\ op' = "_create_modules"
  /\ UNCHANGED <<objects, _objects_by_path, _modules_by_path, reordered,
                 reordered_by_path, path_suffix>>

NextModules == CreateModules

SpecModules == InitModules /\ [][NextModules]_vars

Buckets == {"classes", "interfaces", "functions", "attributes", "type_aliases"}

BucketOfKind ==
  [class |-> "classes", interface |-> "interfaces", function |-> "functions",
   attribute |-> "attributes", typeAlias |-> "type_aliases"]

\* C10: one module per file path of the documentation roots; every root once,
\* in the bucket of its kind of its file's module; no other object anywhere;
\* every bucket ascending by name, equal names in corpus order.
ModuleGrouping ==
  op = "_create_modules" =>
    LET roots == {i \in 1..Len(objects) : objects[i].documentation_root}
        places(o) == {<<m, b, n>> \in (1..Len(result)) \X Buckets \X (1..Len(objects)) :
                        n <= Len(result[m][b]) /\ result[m][b][n] = o}
    IN  /\ \A m1, m2 \in 1..Len(result) :
              result[m1].deppath = result[m2].deppath => m1 = m2
        /\ {result[m].deppath : m \in 1..Len(result)}
              = {objects[i].deppath : i \in roots}
        /\ \A i \in 1..Len(objects) :
              IF i \in roots
                THEN \E m \in 1..Len(result) : \E n \in 1..Len(objects) :
                       /\ result[m].deppath = objects[i].deppath
                       /\ places(objects[i]) = {<<m, BucketOfKind[objects[i].kind], n>>}
                ELSE places(objects[i]) = {}
        /\ \A m \in 1..Len(result) : \A b \in Buckets :
              /\ \A n \in 1..Len(result[m][b]) :
                    \E i \in roots : result[m][b][n] = objects[i]
              /\ \A n \in 1..(Len(result[m][b]) - 1) :
                    LET x == result[m][b][n]
                        y == result[m][b][n + 1]
                    IN  /\ ~StrLess(y.name, x.name)
                        /\ x.name = y.name => x.id < y.id

ModuleGroupingWitness ==
  /\ op = "_create_modules"
  /\ Len(objects) = 2
  /\ objects[1].name = <<"a">>
  /\ objects[2].name = <<"B">>
  /\ Len(result) = 1
  /\ result[1].functions = <<objects[2], objects[1]>>

====
